---- MODULE Spec2Model ----
(***************************************************************************)
(* SODPEST, filter-sparql-portals.mjs: the candidate collection            *)
(* (preparePortal), the derivation mode, the verification engine           *)
(* (verifyCandidatesByCandidate), the endpoint prober                      *)
(* (validateSparqlEndpoint and its three strategies) and the response      *)
(* classifier, as a state machine.                                         *)
(*                                                                         *)
(* JavaScript runs one synchronous block at a time: an action of this      *)
(* module is one such block, from the resumption after an await to the     *)
(* next await that waits for the network.  Strings (content types, bodies) *)
(* are sequences of lexical tokens; a needle of the classifier never       *)
(* straddles two tokens.                                                   *)
(***************************************************************************)
EXTENDS Integers, Sequences, FiniteSets, TLC

\* ------------------------------------------------------------------ bounds
MaxRecords == 2
MaxTasks == 3
MaxConcurrency == 2

\* The candidate URLs of the model.
UrlList == <<"https://a.org/sparql", "https://b.org/query">>
Urls == { UrlList[i] : i \in 1..Len(UrlList) }

Sources == {"explicit", "guessed"}

NULL == "null"

Max(a, b) == IF a >= b THEN a ELSE b

\* ------------------------------------------------- strings as token lists
\* String.prototype.toLowerCase on one token.
ToLowerTok(tok) ==
  CASE tok = "TEXT/HTML" -> "text/html"
    [] tok = "Application/SPARQL-Results+JSON" -> "application/sparql-results+json"
    [] tok = "<!DOCTYPE html>" -> "<!doctype html>"
    [] tok = "<HTML>" -> "<html>"
    [] tok = "<SPARQL>" -> "<sparql>"
    [] tok = "<Boolean>TRUE</Boolean>" -> "<boolean>true</boolean>"
    [] tok = "</SPARQL>" -> "</sparql>"
    [] tok = "sd:Service" -> "sd:service"
    [] tok = "void:sparqlEndpoint" -> "void:sparqlendpoint"
    [] OTHER -> tok

toLowerCase(s) == [i \in 1..Len(s) |-> ToLowerTok(s[i])]

\* The number of characters of a token; the fillers stand for long runs of
\* text that is no markup.
TokLen(tok) ==
  CASE tok = "FILL600" -> 600
    [] tok = "FILL200000" -> 200000
    [] tok = "FILL300000" -> 300000
    [] OTHER -> Len(tok)

\* String.prototype.slice(0, n): the tokens that lie within the first n
\* characters (a token cut by the limit no longer matches any needle).
RECURSIVE SliceTo(_, _)
SliceTo(s, n) ==
  IF s = <<>> \/ TokLen(Head(s)) > n THEN <<>>
  ELSE <<Head(s)>> \o SliceTo(Tail(s), n - TokLen(Head(s)))

IsWs(tok) == tok \in {" ", "\n"}

RECURSIVE TrimStart(_)
TrimStart(s) == IF s # <<>> /\ IsWs(Head(s)) THEN TrimStart(Tail(s)) ELSE s

RECURSIVE TrimEnd(_)
TrimEnd(s) ==
  IF s # <<>> /\ IsWs(s[Len(s)]) THEN TrimEnd(SubSeq(s, 1, Len(s) - 1)) ELSE s

\* String.prototype.trim
trim(s) == TrimEnd(TrimStart(s))

\* String.prototype.includes for a needle that is one (lower-case) token or
\* the start of one.
TokHas(tok, needle) ==
  \/ tok = needle
  \/ needle = "http://www.w3.org/ns/sparql-service-description#"
     /\ tok = "@prefix sd: <http://www.w3.org/ns/sparql-service-description#> ."
  \/ needle = "text/html" /\ tok = "text/html; charset=utf-8"
  \/ needle = "text/turtle" /\ tok = "text/turtle; charset=utf-8"

includes(s, needle) == \E i \in 1..Len(s) : TokHas(s[i], needle)

\* String.prototype.startsWith for a needle that is the start of one token.
startsWith(s, needle) ==
  /\ s # <<>>
  /\ \/ needle = "<!doctype html" /\ Head(s) = "<!doctype html>"
     \/ needle = "<html" /\ Head(s) \in {"<html>", "<html lang=en>"}

\* ------------------------------------------------------ response classifier
\* The content-type alone.
looksLikeHtmlByHeader(contentType, text) ==
  includes(toLowerCase(contentType), "text/html")

looksLikeHtml(contentType, text) ==
  LET ct == toLowerCase(contentType)
      t == toLowerCase(SliceTo(trim(text), 500))
  IN  \/ includes(ct, "text/html")
      \/ startsWith(t, "<!doctype html")
      \/ startsWith(t, "<html")

\* JSON.parse(text) succeeds and the value has a boolean member "boolean":
\* JSON allows white space around the one value, and nothing else.
JsonBooleanToks == {"{\"boolean\":true}", "{\"boolean\":false}"}

looksLikeJsonAsk(text) ==
  LET v == trim(text) IN Len(v) = 1 /\ v[1] \in JsonBooleanToks

\* /<sparql\b[^>]*>[\s\S]*<boolean>(true|false)<\/boolean>[\s\S]*<\/sparql>/i
SparqlOpenToks == {"<sparql>", "<sparql xmlns=w3>"}

looksLikeXmlAsk(text) ==
  LET t == toLowerCase(SliceTo(text, 200000))
  IN  \E i, j, k \in 1..Len(t) :
        /\ i < j /\ j < k
        /\ t[i] \in SparqlOpenToks
        /\ t[j] \in {"<boolean>true</boolean>", "<boolean>false</boolean>"}
        /\ t[k] = "</sparql>"

isRdfContentType(ct) ==
  LET s == toLowerCase(ct)
  IN  \/ includes(s, "text/turtle")
      \/ includes(s, "application/rdf+xml")
      \/ includes(s, "application/ld+json")
      \/ includes(s, "application/n-triples")
      \/ includes(s, "application/n-quads")
      \/ includes(s, "text/n3")
      \/ includes(s, "application/trig")

looksLikeServiceDescription(text) ==
  LET t == toLowerCase(SliceTo(text, 300000))
  IN  \/ includes(t, "http://www.w3.org/ns/sparql-service-description#")
      \/ includes(t, "sd:service")
      \/ includes(t, "sd:endpoint")
      \/ includes(t, "void:sparqlendpoint")

\* ------------------------------------------------------- network outcomes
\* What the network does with one request: a response (status, content-type
\* header, body), a transport error, or no answer at all.
Response(ok, ct, text) == [net |-> "response", ok |-> ok, ct |-> ct, text |-> text]
TransportError == [net |-> "error", ok |-> FALSE, ct |-> <<>>, text |-> <<>>]
NoAnswer == [net |-> "hang", ok |-> FALSE, ct |-> <<>>, text |-> <<>>]

\* No timer.
AbortTimerMissing == FALSE

\* fetchText arms a timer that aborts the request after timeoutMs.
AbortTimerArmed == TRUE

\* The await of fetchText ends: the response arrived, the transport failed,
\* or the timer aborted a request that got no answer.
Settles(o) == o.net \in {"response", "error"} \/ (o.net = "hang" /\ AbortTimerArmed)

\* fetchText without its catch.
fetchTextWithoutCatch(o) ==
  IF o.net = "response"
  THEN [threw |-> FALSE, res |-> [null |-> FALSE, ok |-> o.ok], ct |-> o.ct, text |-> o.text]
  ELSE [threw |-> TRUE, res |-> [null |-> TRUE, ok |-> FALSE], ct |-> <<>>, text |-> <<>>]

\* fetchText: every rejection (transport error, abort) lands in the catch,
\* so the call never throws.
fetchText(o) ==
  IF o.net = "response"
  THEN [threw |-> FALSE, res |-> [null |-> FALSE, ok |-> o.ok], ct |-> o.ct, text |-> o.text]
  ELSE [threw |-> FALSE, res |-> [null |-> TRUE, ok |-> FALSE], ct |-> <<>>, text |-> <<>>]

\* The checks without the two last tests: a boolean acknowledgment counts
\* under a sparql-results content-type only.
AskChecksByContentType(f) ==
  IF f.res.null \/ ~f.res.ok THEN FALSE
  ELSE IF looksLikeHtml(f.ct, f.text) THEN FALSE
  ELSE LET cts == toLowerCase(f.ct) IN
       IF includes(cts, "application/sparql-results+json") /\ looksLikeJsonAsk(f.text) THEN TRUE
       ELSE IF includes(cts, "application/sparql-results+xml") /\ looksLikeXmlAsk(f.text) THEN TRUE
       ELSE FALSE

\* Lines 406-416 and 438-448: the checks tryAskGet and tryAskPost apply to
\* what fetchText returned.
AskChecks(f) ==
  IF f.res.null \/ ~f.res.ok THEN FALSE
  ELSE IF looksLikeHtml(f.ct, f.text) THEN FALSE
  ELSE LET cts == toLowerCase(f.ct) IN
       IF includes(cts, "application/sparql-results+json") /\ looksLikeJsonAsk(f.text) THEN TRUE
       ELSE IF includes(cts, "application/sparql-results+xml") /\ looksLikeXmlAsk(f.text) THEN TRUE
       ELSE IF looksLikeJsonAsk(f.text) THEN TRUE
       ELSE IF looksLikeXmlAsk(f.text) THEN TRUE
       ELSE FALSE

\* tryAskGet wraps its whole body in try/catch: whatever is thrown inside
\* becomes {ok: false}.
tryAskGet(o) ==
  LET f == fetchText(o) IN
  IF f.threw THEN [ok |-> FALSE, threw |-> FALSE]
  ELSE [ok |-> AskChecks(f), threw |-> FALSE]

\* tryAskPost and tryServiceDescription have no try/catch: what is thrown
\* inside leaves them.
tryAskPost(o) ==
  LET f == fetchText(o) IN
  IF f.threw THEN [ok |-> FALSE, threw |-> TRUE]
  ELSE [ok |-> AskChecks(f), threw |-> FALSE]

tryServiceDescription(o) ==
  LET f == fetchText(o) IN
  IF f.threw THEN [ok |-> FALSE, threw |-> TRUE]
  ELSE [ok |-> IF f.res.null \/ ~f.res.ok THEN FALSE
               ELSE IF ~isRdfContentType(f.ct) THEN FALSE
               ELSE IF looksLikeHtml(f.ct, f.text) THEN FALSE
               ELSE IF ~looksLikeServiceDescription(f.text) THEN FALSE
               ELSE TRUE,
        threw |-> FALSE]

\* The strategies of validateSparqlEndpoint, in the order of its body.
Strategies == <<"ask_get", "ask_post", "service_description">>

\* The outcome of the request a strategy sends, and its verdict on it.
OutcomeOf(srv, strategy) ==
  CASE strategy = "ask_get" -> srv.get
    [] strategy = "ask_post" -> srv.post
    [] strategy = "service_description" -> srv.sd

TryStrategy(strategy, o) ==
  CASE strategy = "ask_get" -> tryAskGet(o)
    [] strategy = "ask_post" -> tryAskPost(o)
    [] strategy = "service_description" -> tryServiceDescription(o)

\* No return after a success.
GoesOnAfterSuccess(k, r) == k < Len(Strategies)

\* validateSparqlEndpoint after strategy number k returned r: it goes on to
\* the next strategy, or returns.
GoesOn(k, r) == ~r.ok /\ k < Len(Strategies)

Returned(k, r) ==
  IF r.ok THEN [ok |-> TRUE, mode |-> Strategies[k]] ELSE [ok |-> FALSE, mode |-> NULL]

\* validateSparqlEndpoint run to its end against one server.
RECURSIVE ValidateFrom(_, _)
ValidateFrom(srv, k) ==
  LET r == TryStrategy(Strategies[k], OutcomeOf(srv, Strategies[k]))
  IN  IF r.threw THEN [ok |-> FALSE, mode |-> "thrown"]
      ELSE IF GoesOn(k, r) THEN ValidateFrom(srv, k + 1)
      ELSE Returned(k, r)

validateSparqlEndpoint(srv) == ValidateFrom(srv, 1)

\* ------------------------------------------------------------ the servers
AskJson == Response(TRUE, <<"application/sparql-results+json">>, <<"{\"boolean\":true}">>)
AskJsonPadded ==
  Response(TRUE, <<"Application/SPARQL-Results+JSON", "; charset=utf-8">>,
           <<"\n", "{\"boolean\":false}", "\n">>)
AskXml ==
  Response(TRUE, <<"application/sparql-results+xml">>,
           <<"<sparql xmlns=w3>", "<boolean>true</boolean>", "</sparql>">>)
AskXmlAsPlain ==
  Response(TRUE, <<"text/plain">>,
           <<"<SPARQL>", "<head/>", "<Boolean>TRUE</Boolean>", "</SPARQL>">>)
AskJsonAsHtml == Response(TRUE, <<"TEXT/HTML">>, <<"{\"boolean\":true}">>)
AskJsonRefused == Response(FALSE, <<"application/sparql-results+json">>, <<"{\"boolean\":true}">>)
Bindings == Response(TRUE, <<"application/sparql-results+json">>, <<"{\"head\":{}}">>)
HtmlPage == Response(TRUE, <<"text/html; charset=utf-8">>, <<"<!DOCTYPE html>", "<p>portal</p>">>)
HtmlAsJson == Response(TRUE, <<"application/json">>, <<" ", "<HTML>", "<p>portal</p>">>)
NotFound == Response(FALSE, <<"text/html; charset=utf-8">>, <<"<!DOCTYPE html>", "<p>portal</p>">>)
Turtle ==
  Response(TRUE, <<"text/turtle">>,
           <<"@prefix sd: <http://www.w3.org/ns/sparql-service-description#> .", "sd:Service">>)
TurtleVoid == Response(TRUE, <<"text/turtle; charset=utf-8">>, <<"<p>portal</p>", "void:sparqlEndpoint">>)
TurtleNoMarker == Response(TRUE, <<"text/turtle">>, <<"<p>portal</p>">>)
TurtleAsHtml == Response(TRUE, <<"TEXT/HTML">>, <<"sd:Service">>)
TurtleAsPlain == Response(TRUE, <<"text/plain">>, <<"sd:Service">>)
AskXmlInHtml ==
  Response(TRUE, <<"application/sparql-results+xml">>,
           <<"\n", "<html>", "<sparql>", "<boolean>true</boolean>", "</sparql>">>)
TurtleInHtml == Response(TRUE, <<"text/turtle">>, <<"<html lang=en>", "sd:Service">>)
AskXmlAsJson ==
  Response(TRUE, <<"application/sparql-results+json">>,
           <<"<sparql xmlns=w3>", "<boolean>false</boolean>", "</sparql>">>)
AskJsonAsPlain == Response(TRUE, <<"text/plain">>, <<"{\"boolean\":true}">>)
BindingsAsXml == Response(TRUE, <<"application/sparql-results+xml">>, <<"{\"head\":{}}">>)

\* What one server answers to the three requests of the prober.
Server(get, post, sd) == [get |-> get, post |-> post, sd |-> sd]

\* The servers of the model, by number.  The first three are those of the
\* engine's runs: one that acknowledges the GET, one that only has a service
\* description, one that is down.
Servers ==
  << Server(AskJson, AskJson, HtmlPage),
     Server(HtmlPage, TransportError, Turtle),
     Server(TransportError, NoAnswer, NotFound),
     Server(NotFound, AskXml, NotFound),
     Server(NoAnswer, AskJsonPadded, Turtle),
     Server(AskXmlAsPlain, TransportError, TransportError),
     Server(AskJsonAsHtml, AskJsonAsHtml, TurtleAsHtml),
     Server(Bindings, AskJsonRefused, TurtleNoMarker),
     Server(HtmlAsJson, NoAnswer, TurtleVoid),
     Server(NoAnswer, NoAnswer, NoAnswer),
     Server(AskJsonRefused, Bindings, TurtleAsPlain),
     Server(TransportError, HtmlAsJson, NoAnswer),
     Server(AskXmlInHtml, AskXmlInHtml, TurtleInHtml),
     Server(TransportError, AskXmlAsJson, NoAnswer),
     Server(BindingsAsXml, AskJsonAsPlain, Turtle) >>

EngineServers == 1..3

\* The item lists treat all URLs alike, so of the assignments of servers to
\* URLs that differ only by renaming the URLs one is enough.
Networks(kinds) ==
  { f \in [Urls -> kinds] :
      \A i, j \in 1..Len(UrlList) : i < j => f[UrlList[i]] <= f[UrlList[j]] }

\* ------------------------------------------------------------- the state
VARIABLES
  selected,         \* the raw records (<<>> in the runs that start from prepared records)
  check,            \* --check
  items,            \* the prepared records: items[i+1] is the sparqlCandidates of record i
  concurrency,      \* --concurrency
  strict,           \* --strict
  server,           \* per URL, the number of the server behind it
  enginePc,         \* "raw", "start", "running", "returned", "rejected", "filtered"
  tasks,            \* the flattened task list
  explicitByPortal, \* per record, the URLs of its explicit candidates
  verifiedMap,      \* per record, its verified entries in insertion order
  cursor,           \* the shared cursor
  workers,          \* per worker: pc, the task it holds, the strategy in flight
  out,              \* the rows returned
  claimCount,       \* per task index, how often it was claimed
  requests,         \* per task index, the requests sent for it, in order
  probeLog,         \* per task index, the verdict of each strategy that ended
  probeRes,         \* per task index, what validateSparqlEndpoint returned
  ticks             \* the calls of progress.tick

vars == <<selected, check, items, concurrency, strict, server, enginePc, tasks, explicitByPortal,
          verifiedMap, cursor, workers, out, claimCount, requests, probeLog,
          probeRes, ticks>>

inputs == <<selected, check, items, concurrency, strict, server>>

\* ------------------------------------------------------------ the inputs
Candidates == [url : Urls, source : Sources]

\* A candidate list as collectCandidates builds it: the explicit candidates
\* first, no URL twice.
IsCandidateList(cs) ==
  /\ \A i, j \in 1..Len(cs) : i < j => cs[i].url # cs[j].url
  /\ \A i, j \in 1..Len(cs) : i < j /\ cs[j].source = "explicit" => cs[i].source = "explicit"

CandidateLists ==
  { cs \in UNION { [1..n -> Candidates] : n \in 0..MaxTasks } : IsCandidateList(cs) }

RECURSIVE TotalCandidates(_)
TotalCandidates(its) ==
  IF its = <<>> THEN 0 ELSE Len(Head(its)) + TotalCandidates(Tail(its))

ItemLists ==
  { its \in UNION { [1..n -> CandidateLists] : n \in 0..MaxRecords } :
      TotalCandidates(its) <= MaxTasks }

\* ------------------------------------------------- verifyCandidatesByCandidate
\* Lines 266-270: the task list, record by record, candidate by candidate.
RECURSIVE FlattenFrom(_, _)
FlattenFrom(its, i) ==
  IF i > Len(its) THEN <<>>
  ELSE [k \in 1..Len(its[i]) |->
          [portalIndex |-> i - 1, url |-> its[i][k].url, source |-> its[i][k].source]]
       \o FlattenFrom(its, i + 1)

Flatten(its) == FlattenFrom(its, 1)

\* The filter on the source left out.
AllCandidateSets(its) ==
  [i \in 1..Len(its) |-> { its[i][k].url : k \in 1..Len(its[i]) }]

\* Line 267: the URLs of the record's explicit candidates.
ExplicitSets(its) ==
  [i \in 1..Len(its) |->
     { its[i][k].url : k \in { k \in 1..Len(its[i]) : its[i][k].source = "explicit" } }]

\* A claim that does not advance the cursor.
CursorNotAdvanced(c) == c

\* Every other task left out.
CursorSkipping(c) == c + 2

\* cursor++
NextCursor(c) == c + 1

\* if (myIndex >= tasks.length) break
LoopEnds(myIndex, n) == myIndex >= n

\* Lines 279-283: a worker claims the next task and, if there is one, calls
\* validateSparqlEndpoint, which sends the GET request and awaits it.
Claim(st, w, tsk) ==
  LET myIndex == st.cursor IN
  IF LoopEnds(myIndex, Len(tsk))
  THEN [st EXCEPT !.cursor = NextCursor(@),
                  !.workers[w] = [pc |-> "done", idx |-> 0, k |-> 0]]
  ELSE [st EXCEPT !.cursor = NextCursor(@),
                  !.workers[w] = [pc |-> "fetch", idx |-> myIndex, k |-> 1],
                  !.claimCount[myIndex + 1] = @ + 1,
                  !.requests[myIndex + 1] = Append(@, Strategies[1])]

\* Line 293: Array.from calls worker() max(1, concurrency) times; each call
\* runs to its first await before the next one starts.
RECURSIVE StartWorkers(_, _, _, _)
StartWorkers(st, w, n, tsk) ==
  IF w > n THEN st ELSE StartWorkers(Claim(st, w, tsk), w + 1, n, tsk)

\* One worker too many.
WorkerCountPlusOne(c) == Max(1, c) + 1

\* The concurrency taken as it is.
WorkerCountUnclamped(c) == c

\* Math.max(1, concurrency)
WorkerCount(c) == Max(1, c)

Launch ==
  /\ enginePc = "start"
  /\ check
  /\ LET tsk == Flatten(items)
         n == WorkerCount(concurrency)
         st0 == [cursor |-> 0,
                 workers |-> [w \in 1..n |-> [pc |-> "new", idx |-> 0, k |-> 0]],
                 claimCount |-> [t \in 1..Len(tsk) |-> 0],
                 requests |-> [t \in 1..Len(tsk) |-> <<>>]]
         st == StartWorkers(st0, 1, n, tsk)
     IN  /\ tasks' = tsk
         /\ explicitByPortal' = ExplicitSets(items)
         /\ verifiedMap' = [i \in 1..Len(items) |-> <<>>]
         /\ cursor' = st.cursor
         /\ workers' = st.workers
         /\ claimCount' = st.claimCount
         /\ requests' = st.requests
         /\ probeLog' = [t \in 1..Len(tsk) |-> <<>>]
         /\ probeRes' = [t \in 1..Len(tsk) |-> [ok |-> FALSE, mode |-> "pending"]]
  /\ enginePc' = "running"
  /\ UNCHANGED <<inputs, out, ticks>>

\* m.has(url)
Has(m, url) == \E e \in 1..Len(m) : m[e].url = url

\* A write that replaces the record's map instead of adding to it.
RecordLosingUpdates(m, t, res) ==
  IF res.ok THEN <<[url |-> t.url, source |-> t.source, mode |-> res.mode]>> ELSE m

\* A write that does not look at res.ok.
RecordIgnoringOk(m, t, res) ==
  IF ~Has(m, t.url)
  THEN Append(m, [url |-> t.url, source |-> t.source,
                  mode |-> IF res.ok THEN res.mode ELSE "ask_get"])
  ELSE m

\* A write without the m.has test.
RecordWithoutGuard(m, t, res) ==
  IF res.ok
  THEN Append(m, [url |-> t.url, source |-> t.source, mode |-> res.mode])
  ELSE m

\* Lines 284-287: if (res.ok) { if (!m.has(t.url)) m.set(t.url, {...}) }
Record(m, t, res) ==
  IF res.ok /\ ~Has(m, t.url)
  THEN Append(m, [url |-> t.url, source |-> t.source, mode |-> res.mode])
  ELSE m

\* A task that ends without a tick.
TickSkipped(n) == n

\* if (progress) progress.tick()
Tick(n) == n + 1

\* Per server and strategy: whether the await of the strategy's request ends,
\* and the strategy's verdict when it does.
Ends == [sv \in 1..Len(Servers) |->
          [k \in 1..Len(Strategies) |-> Settles(OutcomeOf(Servers[sv], Strategies[k]))]]

Verdicts == [sv \in 1..Len(Servers) |->
              [k \in 1..Len(Strategies) |->
                 TryStrategy(Strategies[k], OutcomeOf(Servers[sv], Strategies[k]))]]

\* The server a worker's request in flight went to.
ServerOf(w) == server[tasks[workers[w].idx + 1].url]

\* The await of strategy number k of worker w ends.  validateSparqlEndpoint
\* sends the next request, or it returns and the worker records the result,
\* ticks, and claims its next task.  Nothing between the strategy and
\* Promise.all catches: what a strategy throws rejects the worker, and the
\* first rejected worker rejects the engine's call.
StrategyDone(w, k) ==
  /\ enginePc \in {"running", "returned"}
  /\ workers[w].pc = "fetch"
  /\ workers[w].k = k
  /\ Ends[ServerOf(w)][k]
  /\ LET t == workers[w].idx + 1
         r == Verdicts[ServerOf(w)][k]
     IN  IF r.threw
         THEN /\ workers' = [workers EXCEPT ![w].pc = "rejected"]
              /\ enginePc' = "rejected"
              /\ UNCHANGED <<verifiedMap, cursor, claimCount, requests, probeLog,
                             probeRes, ticks>>
         ELSE
         /\ probeLog' = [probeLog EXCEPT ![t] = Append(@, [strategy |-> Strategies[k], ok |-> r.ok])]
         /\ enginePc' = enginePc
         /\ IF GoesOn(k, r)
            THEN /\ workers' = [workers EXCEPT ![w].k = k + 1]
                 /\ requests' = [requests EXCEPT ![t] = Append(@, Strategies[k + 1])]
                 /\ UNCHANGED <<verifiedMap, cursor, claimCount, probeRes, ticks>>
            ELSE LET res == Returned(k, r)
                     p == tasks[t].portalIndex + 1
                     st == Claim([cursor |-> cursor, workers |-> workers,
                                  claimCount |-> claimCount, requests |-> requests],
                                 w, tasks)
                 IN  /\ probeRes' = [probeRes EXCEPT ![t] = res]
                     /\ verifiedMap' = [verifiedMap EXCEPT ![p] = Record(@, tasks[t], res)]
                     /\ ticks' = Tick(ticks)
                     /\ cursor' = st.cursor
                     /\ workers' = st.workers
                     /\ claimCount' = st.claimCount
                     /\ requests' = st.requests
  /\ UNCHANGED <<inputs, tasks, explicitByPortal, out>>

GetDone(w) == StrategyDone(w, 1)
PostDone(w) == StrategyDone(w, 2)
DescriptionDone(w) == StrategyDone(w, 3)

\* Promise.race in the place of Promise.all.
AnyResolved(ws) == \E w \in DOMAIN ws : ws[w].pc = "done"

\* await Promise.all(runners): every worker has returned.
AllResolved(ws) == \A w \in DOMAIN ws : ws[w].pc = "done"

\* The preferred entry reported with the mode of the first entry.
ChosenWithFirstMode(verified) ==
  LET e == IF \E x \in 1..Len(verified) : verified[x].source = "explicit"
           THEN CHOOSE x \in 1..Len(verified) :
                  /\ verified[x].source = "explicit"
                  /\ \A d \in 1..(x - 1) : verified[d].source # "explicit"
           ELSE 1
  IN  [verified[e] EXCEPT !.mode = verified[1].mode]

\* The explicit entry that arrived last in the place of the first.
ChosenLastExplicit(verified) ==
  IF \E e \in 1..Len(verified) : verified[e].source = "explicit"
  THEN verified[CHOOSE e \in 1..Len(verified) :
                  /\ verified[e].source = "explicit"
                  /\ \A d \in (e + 1)..Len(verified) : verified[d].source # "explicit"]
  ELSE verified[1]

\* The first verified entry, explicit or not.
ChosenFirst(verified) == verified[1]

\* verified.find((v) => v.source === "explicit") ?? verified[0]
Chosen(verified) ==
  IF \E e \in 1..Len(verified) : verified[e].source = "explicit"
  THEN verified[CHOOSE e \in 1..Len(verified) :
                  /\ verified[e].source = "explicit"
                  /\ \A d \in 1..(e - 1) : verified[d].source # "explicit"]
  ELSE verified[1]

\* The strict gate of lines 302-304.
Dropped(st, expSet) == st /\ expSet = {}

\* The rows with each record's row put in front of the rows built so far.
RECURSIVE RowsPrepended(_, _, _, _)
RowsPrepended(i, vm, exp, st) ==
  IF i > Len(vm) THEN <<>>
  ELSE LET verified == vm[i]
           rest == RowsPrepended(i + 1, vm, exp, st)
       IN  IF Len(verified) = 0 THEN rest
           ELSE IF Dropped(st, exp[i]) THEN rest
           ELSE LET chosen == Chosen(verified) IN
                rest \o <<[portal |-> i - 1,
                           sparqlEndpoint |-> chosen.url,
                           sparqlGuessed |-> chosen.source # "explicit",
                           sparqlVerified |-> TRUE,
                           sparqlVerifiedBy |-> chosen.mode,
                           sparqlEndpointsVerified |-> [e \in 1..Len(verified) |-> verified[e].url],
                           sparqlEndpointsVerifiedMeta |-> verified]>>

\* Lines 296-317: the rows, record by record.
RECURSIVE RowsFrom(_, _, _, _)
RowsFrom(i, vm, exp, st) ==
  IF i > Len(vm) THEN <<>>
  ELSE LET verified == vm[i]
           rest == RowsFrom(i + 1, vm, exp, st)
       IN  IF Len(verified) = 0 THEN rest
           ELSE IF Dropped(st, exp[i]) THEN rest
           ELSE LET chosen == Chosen(verified) IN
                <<[portal |-> i - 1,
                   sparqlEndpoint |-> chosen.url,
                   sparqlGuessed |-> chosen.source # "explicit",
                   sparqlVerified |-> TRUE,
                   sparqlVerifiedBy |-> chosen.mode,
                   sparqlEndpointsVerified |-> [e \in 1..Len(verified) |-> verified[e].url],
                   sparqlEndpointsVerifiedMeta |-> verified]>> \o rest

Assemble ==
  /\ enginePc = "running"
  /\ AllResolved(workers)
  /\ out' = RowsFrom(1, verifiedMap, explicitByPortal, strict)
  /\ enginePc' = "returned"
  /\ UNCHANGED <<inputs, tasks, explicitByPortal, verifiedMap, cursor, workers,
                 claimCount, requests, probeLog, probeRes, ticks>>

\* ------------------------------------------------------ preparePortal
\* A URL is the token list of its characters: an origin, then one token per
\* path segment ("/" for an empty one), with white space around it where the
\* record has it.  A string has one token list, so two URLs are the same
\* string exactly when their token lists are equal.
Undefined == <<"undefined">>

HttpOrigins == {"https://a.org", "https://A.org"}

\* typeof s === "string", new URL(s.trim()) parses, protocol http: or https:
isHttpUrl(s) ==
  /\ s # Undefined
  /\ trim(s) # <<>>
  /\ Head(trim(s)) \in HttpOrigins

\* replace(/\/+$/g, "")
RECURSIVE StripSlashes(_)
StripSlashes(s) ==
  IF s # <<>> /\ s[Len(s)] = "/" THEN StripSlashes(SubSeq(s, 1, Len(s) - 1)) ELSE s

normalizeBaseUrl(s) == IF ~isHttpUrl(s) THEN <<>> ELSE StripSlashes(trim(s))

\* Lines 178-190, the loop from element k on with the URLs seen so far.
RECURSIVE UniqueFrom(_, _, _)
UniqueFrom(arr, k, seen) ==
  IF k > Len(arr) THEN <<>>
  ELSE IF arr[k].url = <<>> THEN UniqueFrom(arr, k + 1, seen)
  ELSE LET u == trim(arr[k].url) IN
       IF u \notin seen
       THEN <<[url |-> u, source |-> arr[k].source]>> \o UniqueFrom(arr, k + 1, seen \cup {u})
       ELSE UniqueFrom(arr, k + 1, seen)

\* The last occurrence of a URL kept in the place of the first.
RECURSIVE uniqueKeepingLast(_)
uniqueKeepingLast(arr) ==
  IF arr = <<>> THEN <<>>
  ELSE LET x == arr[Len(arr)]
           front == SubSeq(arr, 1, Len(arr) - 1)
           kept == uniqueKeepingLast(SelectSeq(front, LAMBDA y : trim(y.url) # trim(x.url)))
       IN  IF x.url = <<>> THEN uniqueKeepingLast(front)
           ELSE Append(kept, [url |-> trim(x.url), source |-> x.source])

uniqueCandidates(arr) == UniqueFrom(arr, 1, {})

commonEndpointPaths ==
  << <<"/sparql">>, <<"/sparql", "/">>, <<"/sparql-endpoint">>, <<"/sparqlendpoint">>,
     <<"/sparqlEndpoint">>, <<"/sparql", "/endpoint">>, <<"/sparql", "/query">>,
     <<"/endpoint", "/sparql">>, <<"/api", "/sparql">>, <<"/rdf", "/sparql">>,
     <<"/query">>, <<"/query", "/sparql">>, <<"/virtuoso", "/sparql">>,
     <<"/blazegraph", "/sparql">>, <<"/bigdata", "/sparql">>, <<"/fuseki", "/sparql">> >>

\* Lines 216-220: the declared URLs, in the order endpoint, url, details.
ExplicitOf(p) ==
  LET declared == <<p.sparql.endpoint, p.sparql.url, p.sparql.details>>
      kept == SelectSeq(declared, isHttpUrl)
  IN  [k \in 1..Len(kept) |-> [url |-> trim(kept[k]), source |-> "explicit"]]

\* Lines 224-229: the base URL with each common path.
GuessedOf(p) ==
  LET base == normalizeBaseUrl(p.url) IN
  IF base = <<>> THEN <<>>
  ELSE [k \in 1..Len(commonEndpointPaths) |->
          [url |-> base \o commonEndpointPaths[k], source |-> "guessed"]]

collectCandidates(p) == uniqueCandidates(ExplicitOf(p) \o GuessedOf(p))

\* Lines 45-51: prepared = selected.map(preparePortal)
Prepare ==
  /\ enginePc = "raw"
  /\ items' = [i \in 1..Len(selected) |-> collectCandidates(selected[i])]
  /\ enginePc' = "start"
  /\ UNCHANGED <<selected, check, concurrency, strict, server, tasks, explicitByPortal,
                 verifiedMap, cursor, workers, out, claimCount, requests, probeLog,
                 probeRes, ticks>>

\* ------------------------------------------------------ the derivation mode
\* The number of the entry choosePreferred returns, 0 for null:
\* candidates.find((c) => c.source === "explicit"), else candidates[0] ?? null
choosePreferred(candidates) ==
  IF \E e \in 1..Len(candidates) : candidates[e].source = "explicit"
  THEN CHOOSE e \in 1..Len(candidates) :
         /\ candidates[e].source = "explicit"
         /\ \A d \in 1..(e - 1) : candidates[d].source # "explicit"
  ELSE IF Len(candidates) > 0 THEN 1 ELSE 0

\* Lines 61-84: the rows of the run without --check, record by record.
RECURSIVE FilterFrom(_, _, _)
FilterFrom(i, its, st) ==
  IF i > Len(its) THEN <<>>
  ELSE LET cs == its[i]
           rest == FilterFrom(i + 1, its, st)
           hasExplicit == \E k \in 1..Len(cs) : cs[k].source = "explicit"
           chosen == choosePreferred(cs)
       IN  IF Len(cs) = 0 THEN rest
           ELSE IF st /\ ~hasExplicit THEN rest
           ELSE <<[portal |-> i - 1,
                   sparqlEndpoint |-> IF chosen = 0 THEN NULL ELSE cs[chosen].url,
                   sparqlGuessed |-> IF chosen = 0 THEN NULL
                                     ELSE cs[chosen].source # "explicit",
                   sparqlCandidates |-> cs]>> \o rest

Filter ==
  /\ enginePc = "start"
  /\ ~check
  /\ out' = FilterFrom(1, items, strict)
  /\ enginePc' = "filtered"
  /\ UNCHANGED <<inputs, tasks, explicitByPortal, verifiedMap, cursor, workers,
                 claimCount, requests, probeLog, probeRes, ticks>>

\* ------------------------------------------------------ the specifications
Init ==
  /\ items \in ItemLists
  /\ concurrency \in 1..MaxConcurrency
  /\ strict \in BOOLEAN
  /\ server \in Networks(EngineServers)
  /\ selected = <<>>
  /\ check = TRUE
  /\ enginePc = "start"
  /\ tasks = <<>>
  /\ explicitByPortal = <<>>
  /\ verifiedMap = <<>>
  /\ cursor = 0
  /\ workers = <<>>
  /\ out = <<>>
  /\ claimCount = <<>>
  /\ requests = <<>>
  /\ probeLog = <<>>
  /\ probeRes = <<>>
  /\ ticks = 0

Next ==
  \/ Launch
  \/ \E w \in DOMAIN workers : GetDone(w)
  \/ \E w \in DOMAIN workers : PostDone(w)
  \/ \E w \in DOMAIN workers : DescriptionDone(w)
  \/ Assemble

Spec == Init /\ [][Next]_vars

\* The prober against every server of the model: one record.
InitProbe ==
  /\ items \in { its \in ItemLists : Len(its) = 1 /\ Len(its[1]) >= 1 }
  /\ concurrency \in 1..MaxConcurrency
  /\ strict \in BOOLEAN
  /\ server \in Networks(1..Len(Servers))
  /\ selected = <<>>
  /\ check = TRUE
  /\ enginePc = "start"
  /\ tasks = <<>>
  /\ explicitByPortal = <<>>
  /\ verifiedMap = <<>>
  /\ cursor = 0
  /\ workers = <<>>
  /\ out = <<>>
  /\ claimCount = <<>>
  /\ requests = <<>>
  /\ probeLog = <<>>
  /\ probeRes = <<>>
  /\ ticks = 0

SpecProbe == InitProbe /\ [][Next]_vars

\* An unexpected exception inside the strategy a worker awaits (the spec's
\* "unexpected internal fault during a worker's task").  tryAskGet catches
\* it and reports {ok: false}; from tryAskPost and tryServiceDescription it
\* propagates through validateSparqlEndpoint and the worker to Promise.all.
StrategyFaults(w) ==
  /\ enginePc = "running"
  /\ workers[w].pc = "fetch"
  /\ LET t == workers[w].idx + 1
         k == workers[w].k
     IN  IF k = 1
         THEN /\ probeLog' = [probeLog EXCEPT ![t] = Append(@, [strategy |-> Strategies[k], ok |-> FALSE])]
              /\ workers' = [workers EXCEPT ![w].k = k + 1]
              /\ requests' = [requests EXCEPT ![t] = Append(@, Strategies[k + 1])]
              /\ UNCHANGED enginePc
         ELSE /\ workers' = [workers EXCEPT ![w].pc = "rejected"]
              /\ enginePc' = "rejected"
              /\ UNCHANGED <<probeLog, requests>>
  /\ UNCHANGED <<inputs, tasks, explicitByPortal, verifiedMap, cursor, out,
                 claimCount, probeRes, ticks>>

NextFault == Next \/ \E w \in DOMAIN workers : StrategyFaults(w)

SpecFault == Init /\ [][NextFault]_vars

\* The event loop runs every continuation that is ready: the launch, each
\* worker's resumption once its request has ended, and the resumption of the
\* engine once Promise.all has resolved.
WorkerStep(w) == w \in DOMAIN workers /\ (GetDone(w) \/ PostDone(w) \/ DescriptionDone(w))

\* The runs whose termination is in question: each URL is behind a server
\* that answers at once or behind one that never answers any request.  The
\* strict flag and the candidates' source tags are read only when the rows
\* are built.
LiveServers == {1, 10}

InitLive ==
  /\ items \in { its \in ItemLists :
                  \A i \in 1..Len(its) : \A k \in 1..Len(its[i]) : its[i][k].source = "guessed" }
  /\ concurrency \in 1..MaxConcurrency
  /\ strict = FALSE
  /\ server \in Networks(LiveServers)
  /\ selected = <<>>
  /\ check = TRUE
  /\ enginePc = "start"
  /\ tasks = <<>>
  /\ explicitByPortal = <<>>
  /\ verifiedMap = <<>>
  /\ cursor = 0
  /\ workers = <<>>
  /\ out = <<>>
  /\ claimCount = <<>>
  /\ requests = <<>>
  /\ probeLog = <<>>
  /\ probeRes = <<>>
  /\ ticks = 0

SpecLive ==
  /\ InitLive /\ [][Next]_vars
  /\ WF_vars(Launch)
  /\ WF_vars(Assemble)
  /\ \A w \in 1..MaxConcurrency : WF_vars(WorkerStep(w))

\* The runs with any --concurrency, zero and negative values included.  The
\* strict flag and the candidates' source tags are read only when the rows
\* are built.
InitConcurrency ==
  /\ items \in { its \in ItemLists :
                  \A i \in 1..Len(its) : \A k \in 1..Len(its[i]) : its[i][k].source = "guessed" }
  /\ concurrency \in (0 - 1)..MaxConcurrency
  /\ strict = FALSE
  /\ server \in Networks(EngineServers)
  /\ selected = <<>>
  /\ check = TRUE
  /\ enginePc = "start"
  /\ tasks = <<>>
  /\ explicitByPortal = <<>>
  /\ verifiedMap = <<>>
  /\ cursor = 0
  /\ workers = <<>>
  /\ out = <<>>
  /\ claimCount = <<>>
  /\ requests = <<>>
  /\ probeLog = <<>>
  /\ probeRes = <<>>
  /\ ticks = 0

SpecConcurrency == InitConcurrency /\ [][Next]_vars

\* verifyCandidatesByCandidate on a record whose candidate list may hold a
\* URL more than once: the engine takes any list, and the m.has test of line
\* 286 is what then keeps one entry per URL.
InitRepeated ==
  /\ items \in { <<cs>> : cs \in UNION { [1..n -> Candidates] : n \in 1..MaxTasks } }
  /\ concurrency \in 1..MaxConcurrency
  /\ strict = FALSE
  /\ server \in Networks(EngineServers)
  /\ selected = <<>>
  /\ check = TRUE
  /\ enginePc = "start"
  /\ tasks = <<>>
  /\ explicitByPortal = <<>>
  /\ verifiedMap = <<>>
  /\ cursor = 0
  /\ workers = <<>>
  /\ out = <<>>
  /\ claimCount = <<>>
  /\ requests = <<>>
  /\ probeLog = <<>>
  /\ probeRes = <<>>
  /\ ticks = 0

SpecRepeated == InitRepeated /\ [][Next]_vars

\* The values of a record's url, sparql.endpoint, sparql.url and
\* sparql.details: absent, no URL, another scheme, and http URLs that differ
\* in white space, in letter case, or in trailing slashes only.
RawStrings ==
  { Undefined,
    <<"sparql">>,
    <<"ftp://a.org", "/sparql">>,
    <<"https://a.org">>,
    <<" ", "https://a.org", "/", "/", "\n">>,
    <<"https://a.org", "/sparql">>,
    <<" ", "https://a.org", "/sparql", " ">>,
    <<"https://A.org", "/sparql">>,
    <<"https://a.org", "/sparql", "/">> }

RawPortals ==
  [url : RawStrings, sparql : [endpoint : RawStrings, url : RawStrings, details : RawStrings]]

\* The run without --check on one raw record.
InitDerive ==
  /\ selected \in { <<p>> : p \in RawPortals }
  /\ check = FALSE
  /\ items = <<>>
  /\ concurrency = 1
  /\ strict \in BOOLEAN
  /\ server = [u \in Urls |-> 1]
  /\ enginePc = "raw"
  /\ tasks = <<>>
  /\ explicitByPortal = <<>>
  /\ verifiedMap = <<>>
  /\ cursor = 0
  /\ workers = <<>>
  /\ out = <<>>
  /\ claimCount = <<>>
  /\ requests = <<>>
  /\ probeLog = <<>>
  /\ probeRes = <<>>
  /\ ticks = 0

NextDerive == Prepare \/ Filter

SpecDerive == InitDerive /\ [][NextDerive]_vars

\* Both modes from the prepared records on, the verification mode with the
\* most workers, under which the verified entries arrive in any order.
InitSelect ==
  /\ selected = <<>>
  /\ check \in BOOLEAN
  /\ items \in ItemLists
  /\ concurrency = MaxConcurrency
  /\ strict \in BOOLEAN
  /\ server \in Networks(EngineServers)
  /\ enginePc = "start"
  /\ tasks = <<>>
  /\ explicitByPortal = <<>>
  /\ verifiedMap = <<>>
  /\ cursor = 0
  /\ workers = <<>>
  /\ out = <<>>
  /\ claimCount = <<>>
  /\ requests = <<>>
  /\ probeLog = <<>>
  /\ probeRes = <<>>
  /\ ticks = 0

NextSelect == Next \/ Filter

SpecSelect == InitSelect /\ [][NextSelect]_vars

\* ---------------------------------------------------------------- claims
\* What validateSparqlEndpoint returns for each server.
ProbeOutcomes == [sv \in 1..Len(Servers) |-> validateSparqlEndpoint(Servers[sv])]

Outcome(url) == ProbeOutcomes[server[url]]

TasksOf(i) == { t \in 1..Len(tasks) : tasks[t].portalIndex = i - 1 }

Finished(t) == probeRes[t].mode # "pending"

AsSet(seq) == { seq[e] : e \in 1..Len(seq) }

\* C1: every task of the flattened list is claimed by exactly one worker: no
\* task index is claimed twice, no two workers hold the same task, and once
\* all workers have finished every index below tasks.length was claimed.
C1_ClaimedExactlyOnce ==
  /\ \A t \in DOMAIN claimCount : claimCount[t] <= 1
  /\ \A v, w \in DOMAIN workers :
       (v # w /\ workers[v].pc = "fetch" /\ workers[w].pc = "fetch")
         => workers[v].idx # workers[w].idx
  /\ (enginePc # "start" /\ AllResolved(workers))
       => \A t \in 1..Len(tasks) : claimCount[t] = 1

C1_Witness ==
  /\ enginePc = "running" /\ AllResolved(workers)
  /\ concurrency = 2 /\ Len(tasks) = 3
  /\ \A t \in 1..Len(tasks) : claimCount[t] = 1

\* C2: for a fixed probe outcome per URL, the final verified set of every
\* record, as a set of (url, source, mode) entries, is a function of the
\* records and the outcomes alone, whatever the concurrency and the order in
\* which the probes complete.
ExpectedVerified(i) ==
  { [url |-> items[i][k].url, source |-> items[i][k].source,
     mode |-> Outcome(items[i][k].url).mode] :
      k \in { k \in 1..Len(items[i]) : Outcome(items[i][k].url).ok } }

C2_VerifiedSetDetermined ==
  enginePc = "returned"
    => \A i \in 1..Len(items) : AsSet(verifiedMap[i]) = ExpectedVerified(i)

C2_Witness ==
  /\ enginePc = "returned" /\ concurrency = 2
  /\ \E i \in 1..Len(items) :
       /\ Len(verifiedMap[i]) = 2
       /\ verifiedMap[i][1].url = items[i][2].url
       /\ verifiedMap[i][1].mode # verifiedMap[i][2].mode

\* The run with concurrency 1: the tasks are probed in task-list order, so a
\* record's verified entries are its successful candidates in candidate order.
RECURSIVE SeqVerifiedOf(_)
SeqVerifiedOf(cs) ==
  IF cs = <<>> THEN <<>>
  ELSE (IF Outcome(Head(cs).url).ok
        THEN <<[url |-> Head(cs).url, source |-> Head(cs).source,
                mode |-> Outcome(Head(cs).url).mode]>>
        ELSE <<>>) \o SeqVerifiedOf(Tail(cs))

SeqRows ==
  RowsFrom(1, [i \in 1..Len(items) |-> SeqVerifiedOf(items[i])], ExplicitSets(items), strict)

\* The chosen endpoint of record i in a list of rows (empty: no row).
ChosenFields(rows, i) ==
  { [sparqlEndpoint |-> rows[r].sparqlEndpoint, sparqlGuessed |-> rows[r].sparqlGuessed,
     sparqlVerifiedBy |-> rows[r].sparqlVerifiedBy] :
      r \in { r \in 1..Len(rows) : rows[r].portal = i - 1 } }

OkCount(i, src) ==
  Cardinality({ k \in 1..Len(items[i]) :
                  items[i][k].source = src /\ Outcome(items[i][k].url).ok })

C4_FixedOrderShortCircuit ==
  \A t \in DOMAIN requests :
    /\ requests[t] = SubSeq(Strategies, 1, Len(requests[t]))
    /\ Len(probeLog[t]) <= Len(requests[t])
    /\ Len(requests[t]) <= Len(probeLog[t]) + 1
    /\ \A j \in 1..Len(probeLog[t]) : probeLog[t][j].strategy = Strategies[j]
    /\ \A j \in 2..Len(requests[t]) : ~probeLog[t][j - 1].ok
    /\ \A j \in 1..Len(probeLog[t]) :
         probeLog[t][j].ok
           => /\ Len(requests[t]) = j
              /\ probeRes[t] = [ok |-> TRUE, mode |-> Strategies[j]]
    /\ probeRes[t].ok => \E j \in 1..Len(probeLog[t]) : probeLog[t][j].ok

C4_Witness ==
  \E t \in DOMAIN requests :
    /\ requests[t] = <<"ask_get", "ask_post">>
    /\ probeLog[t] = <<[strategy |-> "ask_get", ok |-> FALSE],
                       [strategy |-> "ask_post", ok |-> TRUE]>>
    /\ probeRes[t] = [ok |-> TRUE, mode |-> "ask_post"]

\* C5: a transport error, a timeout abort or a non-success status makes the
\* strategy fail; a failed strategy, whatever the cause, is followed by the
\* next one; nothing is raised to the caller; and the prober returns
\* {ok: false, mode: null} exactly when all three strategies failed.
C5_FailuresStayInside ==
  /\ enginePc # "rejected"
  /\ \A w \in DOMAIN workers : workers[w].pc # "rejected"
  /\ \A t \in DOMAIN probeLog :
       /\ \A j \in 1..Len(probeLog[t]) :
            LET o == OutcomeOf(Servers[server[tasks[t].url]], Strategies[j]) IN
            /\ (o.net \in {"error", "hang"} \/ ~o.ok) => ~probeLog[t][j].ok
            /\ (~probeLog[t][j].ok /\ j < Len(Strategies)) => Len(requests[t]) > j
       /\ Finished(t)
            => (probeRes[t] = [ok |-> FALSE, mode |-> NULL]
                 <=> /\ Len(probeLog[t]) = Len(Strategies)
                     /\ \A j \in 1..Len(probeLog[t]) : ~probeLog[t][j].ok)

C5_Witness ==
  \E t \in DOMAIN probeLog :
    /\ Finished(t) /\ probeRes[t] = [ok |-> FALSE, mode |-> NULL]
    /\ Servers[server[tasks[t].url]] = Server(TransportError, NoAnswer, NotFound)

\* C6 as stated: an unexpected exception thrown while a worker processes a
\* task is caught at the worker boundary: no worker ends rejected and the
\* engine's call does not fail.
C6_FaultContained ==
  /\ enginePc # "rejected"
  /\ \A w \in DOMAIN workers : workers[w].pc # "rejected"

HasRow(i) == \E r \in 1..Len(out) : out[r].portal = i - 1

HasExplicit(i) == \E k \in 1..Len(items[i]) : items[i][k].source = "explicit"

\* C7: with strict set, a record with at least one verified candidate yields
\* a row if and only if its original candidate list has an explicit candidate,
\* whether or not that candidate verified.
C7_StrictGate ==
  (enginePc = "returned" /\ strict)
    => \A i \in 1..Len(items) :
         (\E t \in TasksOf(i) : probeRes[t].ok) => (HasRow(i) <=> HasExplicit(i))

C7_Witness ==
  /\ enginePc = "returned" /\ strict
  /\ \E i \in 1..Len(items) :
       /\ HasRow(i)
       /\ \A t \in TasksOf(i) : tasks[t].source = "explicit" => ~probeRes[t].ok
       /\ \E t \in TasksOf(i) : tasks[t].source = "explicit"
  /\ \E i \in 1..Len(items) :
       /\ ~HasRow(i) /\ ~HasExplicit(i)
       /\ \E t \in TasksOf(i) : probeRes[t].ok

RowCount(i) == Cardinality({ r \in 1..Len(out) : out[r].portal = i - 1 })

\* C8: without strict, a record contributes exactly one row if one of its
\* candidates was probed successfully and no row otherwise (all probes
\* failed, or no candidates).
C8_RowIffVerified ==
  (enginePc = "returned" /\ ~strict)
    => \A i \in 1..Len(items) :
         RowCount(i) = IF \E t \in TasksOf(i) : probeRes[t].ok THEN 1 ELSE 0

C8_Witness ==
  /\ enginePc = "returned" /\ ~strict
  /\ \E i \in 1..Len(items) :
       TasksOf(i) # {} /\ RowCount(i) = 0 /\ \A t \in TasksOf(i) : ~probeRes[t].ok
  /\ \E i \in 1..Len(items) : RowCount(i) = 1

\* C9: the rows are built only after every worker has finished: when the
\* engine has returned every task was claimed and its probe has completed, no
\* request is in flight, and the verified sets and the rows no longer change.
C9_AssemblyAfterWorkers ==
  /\ [](enginePc = "returned"
          => /\ \A t \in 1..Len(tasks) : claimCount[t] = 1 /\ Finished(t)
             /\ \A w \in DOMAIN workers : workers[w].pc = "done")
  /\ [][enginePc = "returned" => (verifiedMap' = verifiedMap /\ out' = out)]_vars

C9_Witness ==
  /\ enginePc = "returned" /\ concurrency = 2 /\ Len(tasks) = 3
  /\ Len(out) = 2

\* C10: with every request ending (response, transport error or abort) and
\* fair scheduling, every probe returns, every worker leaves its loop and the
\* engine returns.
C10_Terminates ==
  <>(/\ enginePc = "returned"
     /\ AllResolved(workers)
     /\ \A t \in 1..Len(tasks) : Finished(t))

C10_Witness ==
  /\ enginePc = "returned" /\ concurrency = 2 /\ Len(tasks) = 3
  /\ \A t \in 1..Len(tasks) :
       Servers[server[tasks[t].url]] = Server(NoAnswer, NoAnswer, NoAnswer)

\* The probes in flight: the tasks for which a request was sent and
\* validateSparqlEndpoint has not returned.
ProbesInFlight == { t \in DOMAIN requests : requests[t] # <<>> /\ ~Finished(t) }

\* C11: for every integer concurrency, zero and negative values included,
\* exactly max(1, concurrency) workers are launched; at most that many probes
\* are in flight, each held by one worker, and a worker has exactly one
\* request outstanding while it holds a probe.
C11_WorkerPool ==
  enginePc # "start"
    => /\ Cardinality(DOMAIN workers) = (IF concurrency >= 1 THEN concurrency ELSE 1)
       /\ Cardinality(ProbesInFlight) <= (IF concurrency >= 1 THEN concurrency ELSE 1)
       /\ \A t \in ProbesInFlight :
            /\ Cardinality({ w \in DOMAIN workers :
                               workers[w].pc = "fetch" /\ workers[w].idx = t - 1 }) = 1
            /\ Len(requests[t]) = Len(probeLog[t]) + 1
       /\ \A t \in DOMAIN requests \ ProbesInFlight : Len(requests[t]) = Len(probeLog[t])

C11_Witness ==
  /\ concurrency = 0 - 1
  /\ Cardinality(DOMAIN workers) = 1
  /\ Cardinality(ProbesInFlight) = 1
  /\ Len(tasks) = 3
  /\ \E t \in DOMAIN probeRes : Finished(t)

\* C12: a record's verified set holds at most one entry per URL, and an
\* entry once inserted is never overwritten or removed: every step keeps the
\* entries the set holds, url, source and mode, in their places, so a later
\* successful probe of a URL the set holds leaves the set as it was.
C12_InsertOnce ==
  /\ [](\A i \in DOMAIN verifiedMap :
          \A d, e \in 1..Len(verifiedMap[i]) :
            verifiedMap[i][d].url = verifiedMap[i][e].url => d = e)
  /\ [][\A i \in DOMAIN verifiedMap :
          /\ Len(verifiedMap'[i]) >= Len(verifiedMap[i])
          /\ \A e \in 1..Len(verifiedMap[i]) : verifiedMap'[i][e] = verifiedMap[i][e]
          /\ \A w \in DOMAIN workers :
               (/\ workers[w].pc = "fetch" /\ workers'[w] # workers[w]
                /\ tasks[workers[w].idx + 1].portalIndex = i - 1
                /\ Has(verifiedMap[i], tasks[workers[w].idx + 1].url))
                 => verifiedMap'[i] = verifiedMap[i]]_vars

\* Two tasks of one record with the same URL, tagged differently, have both
\* succeeded: the set holds the entry of the one that finished first.
C12_Witness ==
  /\ enginePc = "returned"
  /\ \E t, u \in DOMAIN tasks :
       /\ t < u /\ tasks[t].url = tasks[u].url /\ tasks[t].source # tasks[u].source
       /\ probeRes[t].ok /\ probeRes[u].ok
       /\ Len(verifiedMap[1]) = 1
       /\ verifiedMap[1][1].source = tasks[u].source

HasExplicitEntry(list) == \E e \in 1..Len(list) : list[e].source = "explicit"

\* The lists of the state: every record's candidates and every record's
\* verified entries (in any order of arrival).
ListsOfState ==
  { items[i] : i \in 1..Len(items) } \cup { verifiedMap[i] : i \in DOMAIN verifiedMap }

\* C13: the selection rule returns null on an empty list and an explicit
\* entry on a list that holds one, wherever it stands.  It holds of
\* choosePreferred on every list, in the rows of the derivation mode, and in
\* the rows of the verification mode, where the selection is applied to
\* non-empty verified sets only.
C13_SelectionRule ==
  /\ \A list \in ListsOfState :
       /\ list = <<>> <=> choosePreferred(list) = 0
       /\ HasExplicitEntry(list) => list[choosePreferred(list)].source = "explicit"
       /\ list # <<>> => Chosen(list) \in AsSet(list)
       /\ HasExplicitEntry(list) => Chosen(list).source = "explicit"
  /\ enginePc \in {"filtered", "returned"}
       => \A r \in 1..Len(out) :
            LET i == out[r].portal + 1
                list == IF check THEN verifiedMap[i] ELSE items[i]
            IN  /\ list # <<>>
                /\ \E e \in 1..Len(list) :
                     /\ list[e].url = out[r].sparqlEndpoint
                     /\ out[r].sparqlGuessed = (list[e].source # "explicit")
                /\ HasExplicitEntry(list) => ~out[r].sparqlGuessed

\* The verification mode returned a row for a record whose first verified
\* entry is a guessed one and whose second is explicit.
C13_Witness ==
  /\ enginePc = "returned"
  /\ \E r \in 1..Len(out) :
       LET v == verifiedMap[out[r].portal + 1] IN
       /\ Len(v) = 2 /\ v[1].source = "guessed" /\ v[2].source = "explicit"
       /\ out[r].sparqlEndpoint = v[2].url

\* The places in record i's candidate list of its explicit candidates whose
\* probe succeeded.
VerifiedExplicitPlaces(i) ==
  { k \in 1..Len(items[i]) : items[i][k].source = "explicit" /\ Outcome(items[i][k].url).ok }

FirstPlace(places) == CHOOSE k \in places : \A j \in places : k <= j

HtmlLike(o) ==
  \/ \E i \in 1..Len(o.ct) : ToLowerTok(o.ct[i]) \in {"text/html", "text/html; charset=utf-8"}
  \/ \E i \in 1..Len(o.text) :
       /\ \A j \in 1..(i - 1) : o.text[j] \in {" ", "\n"}
       /\ ToLowerTok(o.text[i]) \in {"<!doctype html>", "<html>", "<html lang=en>"}

\* The response to the request of strategy number j of task t.
ResponseTo(t, j) == OutcomeOf(Servers[server[tasks[t].url]], Strategies[j])

\* C15: an HTML-like response is never a success of the GET ask, the POST
\* ask or the service description, whatever its status and body, a body that
\* is a boolean acknowledgment included.
C15_HtmlNeverSucceeds ==
  \A t \in DOMAIN probeLog :
    \A j \in 1..Len(probeLog[t]) :
      (ResponseTo(t, j).net = "response" /\ HtmlLike(ResponseTo(t, j)))
        => ~probeLog[t][j].ok

\* All three strategies ended on an HTML-like response with a status of
\* success: two on a boolean acknowledgment wrapped in an html tag, one on a
\* service description behind an html tag.
C15_Witness ==
  \E t \in DOMAIN probeLog :
    /\ Len(probeLog[t]) = 3
    /\ \A j \in 1..3 : ResponseTo(t, j).ok /\ HtmlLike(ResponseTo(t, j))
    /\ ResponseTo(t, 1) = AskXmlInHtml
    /\ ResponseTo(t, 3) = TurtleInHtml
    /\ probeRes[t] = [ok |-> FALSE, mode |-> NULL]

\* The places in record i's candidate list of the candidates whose probe
\* succeeded.
VerifiedPlaces(i) == { k \in 1..Len(items[i]) : Outcome(items[i][k].url).ok }

\* C16: every row has sparqlVerified true; its sparqlEndpoint is the URL of
\* one entry of its sparqlEndpointsVerifiedMeta, sparqlVerifiedBy is the mode
\* of that entry and sparqlGuessed is false exactly when that entry is
\* explicit; sparqlEndpointsVerified lists the URLs of the record's
\* candidates whose probe succeeded, each once, as the meta list does with
\* the candidate's source and the probe's mode.
C16_RowConsistent ==
  enginePc = "returned"
    => \A r \in 1..Len(out) :
         LET row == out[r]
             i == row.portal + 1
             meta == row.sparqlEndpointsVerifiedMeta
             urls == row.sparqlEndpointsVerified
         IN  /\ row.sparqlVerified = TRUE
             /\ Cardinality({ e \in 1..Len(meta) : meta[e].url = row.sparqlEndpoint }) = 1
             /\ \A e \in 1..Len(meta) :
                  /\ meta[e].url = row.sparqlEndpoint
                       => /\ row.sparqlVerifiedBy = meta[e].mode
                          /\ (row.sparqlGuessed = FALSE) <=> (meta[e].source = "explicit")
                  /\ \E k \in VerifiedPlaces(i) :
                       /\ items[i][k].url = meta[e].url
                       /\ items[i][k].source = meta[e].source
                       /\ Outcome(items[i][k].url).mode = meta[e].mode
             /\ Len(urls) = Len(meta)
             /\ \A e \in 1..Len(urls) : urls[e] = meta[e].url
             /\ AsSet(urls) = { items[i][k].url : k \in VerifiedPlaces(i) }
             /\ Len(urls) = Cardinality(VerifiedPlaces(i))

\* A row with two verified URLs of different modes whose chosen endpoint is
\* the second of the list.
C16_Witness ==
  /\ enginePc = "returned"
  /\ \E r \in 1..Len(out) :
       LET meta == out[r].sparqlEndpointsVerifiedMeta IN
       /\ Len(meta) = 2
       /\ meta[1].mode # meta[2].mode
       /\ out[r].sparqlEndpoint = meta[2].url
       /\ out[r].sparqlVerifiedBy = meta[2].mode
       /\ ~out[r].sparqlGuessed

\* The discovery order of raw record p: its declared http URLs in the order
\* endpoint, url, details, then the guesses in the order of the common paths.
Discovery(p) == ExplicitOf(p) \o GuessedOf(p)

\* The first place of URL u in a list of URLs.
FirstFound(urls, u) ==
  CHOOSE d \in 1..Len(urls) : urls[d] = u /\ \A c \in 1..(d - 1) : urls[c] # u

\* C17: the candidate list of a record holds pairwise distinct URLs, compared
\* as trimmed strings with letter case; of the candidates discovered with the
\* same URL the first is the one kept, and the list is in discovery order,
\* explicit candidates before guessed ones, so a URL both declared and
\* guessed is kept once, as explicit.
C17_UniqueCandidates ==
  (enginePc # "raw" /\ selected # <<>>)
    => \A i \in 1..Len(selected) :
         LET cs == items[i]
             found == Discovery(selected[i])
             urls == [d \in 1..Len(found) |-> trim(found[d].url)]
             kept == { cs[a].url : a \in 1..Len(cs) }
             first == [a \in 1..Len(cs) |->
                         IF cs[a].url \in AsSet(urls) THEN FirstFound(urls, cs[a].url) ELSE 0]
         IN  /\ Cardinality(kept) = Len(cs)
             /\ kept = AsSet(urls)
             /\ \A a \in 1..Len(cs) :
                  /\ cs[a].url = trim(cs[a].url)
                  /\ cs[a].source = found[first[a]].source
             /\ \A a \in 1..(Len(cs) - 1) :
                  /\ first[a] < first[a + 1]
                  /\ cs[a + 1].source = "explicit" => cs[a].source = "explicit"
             /\ \A c, d \in 1..Len(found) :
                  (/\ found[c].source = "explicit" /\ found[d].source = "guessed"
                   /\ urls[c] = urls[d])
                    => \A a \in 1..Len(cs) :
                         cs[a].url = urls[c] => cs[a].source = "explicit"

\* A record declares a URL twice, once with white space around it, and once
\* more with another letter case; the URL is also one of the guesses.
C17_Witness ==
  /\ enginePc = "filtered"
  /\ selected[1].sparql.endpoint = <<"https://A.org", "/sparql">>
  /\ selected[1].sparql.url = <<" ", "https://a.org", "/sparql", " ">>
  /\ selected[1].sparql.details = <<"https://a.org", "/sparql">>
  /\ selected[1].url = <<" ", "https://a.org", "/", "/", "\n">>
  /\ Len(items[1]) = 17
  /\ items[1][1] = [url |-> <<"https://A.org", "/sparql">>, source |-> "explicit"]
  /\ items[1][2] = [url |-> <<"https://a.org", "/sparql">>, source |-> "explicit"]
  /\ items[1][3] = [url |-> <<"https://a.org", "/sparql", "/">>, source |-> "guessed"]

\* C18: progress.tick is called once for each task whose probe has returned,
\* and for no other; when the engine returns, the ticks are as many as the
\* tasks, which are as many as the candidates of all records.
C18_OneTickPerTask ==
  enginePc \in {"running", "returned"}
    => /\ ticks = Cardinality({ t \in DOMAIN probeRes : Finished(t) })
       /\ enginePc = "returned" => ticks = Len(tasks) /\ ticks = TotalCandidates(items)

C18_Witness ==
  /\ enginePc = "returned"
  /\ ticks = 3
  /\ Len(items) = 2
  /\ \E t \in DOMAIN probeRes : ~probeRes[t].ok
  /\ \E t \in DOMAIN probeRes : probeRes[t].ok

\* Record i's candidates whose probe succeeds, in candidate order.
VerifiedInOrder(i) == SelectSeq(items[i], LAMBDA c : Outcome(c.url).ok)

\* C19: with concurrency 1 the tasks are probed one after another in
\* task-list order: a request for a task is sent only when every earlier
\* task has finished.  So each record's verified entries are in candidate
\* order, sparqlEndpointsVerified is in that order, and a record without a
\* verified explicit candidate gets its first verified candidate.
C19_SequentialOrder ==
  (concurrency = 1 /\ enginePc \in {"running", "returned"})
    => /\ Cardinality(ProbesInFlight) <= 1
       /\ \A t \in DOMAIN requests :
            requests[t] # <<>> => \A u \in 1..(t - 1) : Finished(u)
       /\ \A i \in DOMAIN verifiedMap :
            /\ Len(verifiedMap[i]) <= Len(VerifiedInOrder(i))
            /\ \A e \in 1..Len(verifiedMap[i]) :
                 /\ verifiedMap[i][e].url = VerifiedInOrder(i)[e].url
                 /\ verifiedMap[i][e].source = VerifiedInOrder(i)[e].source
       /\ enginePc = "returned"
            => \A r \in 1..Len(out) :
                 LET i == out[r].portal + 1
                     ordered == VerifiedInOrder(i)
                 IN  /\ out[r].sparqlEndpointsVerified
                          = [e \in 1..Len(ordered) |-> ordered[e].url]
                     /\ VerifiedExplicitPlaces(i) = {}
                          => out[r].sparqlEndpoint = ordered[1].url

\* A run with concurrency 1 in which the first candidate of a record needs
\* all three requests and the second one only: the list is in candidate order.
C19_Witness ==
  /\ concurrency = 1 /\ enginePc = "returned"
  /\ \E r \in 1..Len(out) :
       LET i == out[r].portal + 1 IN
       /\ Len(items[i]) >= 2
       /\ VerifiedExplicitPlaces(i) = {}
       /\ Outcome(items[i][1].url).mode = "service_description"
       /\ Outcome(items[i][2].url).mode = "ask_get"
       /\ out[r].sparqlEndpointsVerified = <<items[i][1].url, items[i][2].url>>
       /\ out[r].sparqlEndpoint = items[i][1].url

\* The calls of validateSparqlEndpoint for task t: each call sends one GET
\* ask first.
Invocations(t) == Cardinality({ j \in 1..Len(requests[t]) : requests[t][j] = "ask_get" })

RECURSIVE SumOver(_, _)
SumOver(f, n) == IF n = 0 THEN 0 ELSE f[n] + SumOver(f, n - 1)

\* C20: the URLs of a record being distinct, the prober is called once per
\* (record, candidate) task, so the calls are as many as the candidates of
\* all records; a URL of several records is probed once for each of them,
\* each task getting the answers to its own requests; and the test before an
\* insertion never finds the URL in the record's set.
C20_OneProbePerTask ==
  enginePc \in {"running", "returned"}
    => /\ \A t \in DOMAIN tasks :
            /\ Invocations(t) = claimCount[t]
            /\ claimCount[t] <= 1
            /\ ~Finished(t) => ~Has(verifiedMap[tasks[t].portalIndex + 1], tasks[t].url)
            /\ Finished(t)
                 => /\ Invocations(t) = 1
                    /\ probeLog[t] # <<>> /\ Len(probeLog[t]) = Len(requests[t])
                    /\ probeRes[t] = Outcome(tasks[t].url)
       /\ \A i \in DOMAIN verifiedMap :
            Len(verifiedMap[i]) = Cardinality({ t \in TasksOf(i) : Finished(t) /\ probeRes[t].ok })
       /\ enginePc = "returned"
            => /\ \A t \in DOMAIN tasks : Invocations(t) = 1
               /\ SumOver([t \in DOMAIN tasks |-> Invocations(t)], Len(tasks))
                    = TotalCandidates(items)

\* Two records hold the same URL: it was probed for each, with its own
\* requests, and stands in the verified set of each.
C20_Witness ==
  /\ enginePc = "returned"
  /\ Len(items) = 2
  /\ \E t \in TasksOf(1), u \in TasksOf(2) :
       /\ tasks[t].url = tasks[u].url
       /\ Len(requests[t]) = 3 /\ Len(requests[u]) = 3
       /\ Has(verifiedMap[1], tasks[t].url) /\ Has(verifiedMap[2], tasks[u].url)
  /\ Len(tasks) = 3

\* C21: the rows returned are in ascending order of record index, so a
\* record has one row at most, whatever the concurrency and the order in
\* which the probes completed.
C21_RowsAscending ==
  enginePc = "returned"
    => /\ \A r \in 1..Len(out) : out[r].portal \in 0..(Len(items) - 1)
       /\ \A q, r \in 1..Len(out) : q < r => out[q].portal < out[r].portal

\* Two workers; the probe of the first record's candidate took three
\* requests and the probe of the second record's one, and both have a row.
C21_Witness ==
  /\ enginePc = "returned" /\ concurrency = 2
  /\ Len(out) = 2
  /\ \E t \in TasksOf(1), u \in TasksOf(2) :
       /\ Len(probeLog[t]) = 3 /\ Len(probeLog[u]) = 1
       /\ probeRes[t].ok /\ probeRes[u].ok

\* C22: the GET ask and the POST ask succeed exactly when the request got a
\* response with a status of success that is not HTML-like and whose body
\* passes the JSON boolean check or the XML boolean check: the content-type
\* counts through the HTML detection only, and the tests made first under a
\* sparql-results content-type change nothing.
C22_ContentTypeOnlyThroughHtml ==
  \A t \in DOMAIN probeLog :
    \A j \in 1..Len(probeLog[t]) :
      Strategies[j] \in {"ask_get", "ask_post"}
        => (probeLog[t][j].ok
             <=> /\ ResponseTo(t, j).net = "response"
                 /\ ResponseTo(t, j).ok
                 /\ ~HtmlLike(ResponseTo(t, j))
                 /\ \/ looksLikeJsonAsk(ResponseTo(t, j).text)
                    \/ looksLikeXmlAsk(ResponseTo(t, j).text))

\* A GET ask failed on a body that is no acknowledgment although labelled
\* sparql-results+xml, and the POST ask succeeded on a JSON acknowledgment
\* labelled text/plain.
C22_Witness ==
  \E t \in DOMAIN probeLog :
    /\ ResponseTo(t, 1) = BindingsAsXml
    /\ ResponseTo(t, 2) = AskJsonAsPlain
    /\ probeLog[t] = <<[strategy |-> "ask_get", ok |-> FALSE],
                       [strategy |-> "ask_post", ok |-> TRUE]>>
    /\ probeRes[t] = [ok |-> TRUE, mode |-> "ask_post"]

====
